---- MODULE Spec2Model ----
(***************************************************************************)
(* Valuation and deal-modelling engine of mna-automation: calculate_dcf,   *)
(* the LBO and IPO models of FinModelsTools with their sensitivity sweeps, *)
(* and the target comparison of generate_final_recommendation.             *)
(*                                                                         *)
(* Python floats are modelled as exact rationals <<n, d>> (d > 0, lowest   *)
(* terms).  A Python exception is modelled where the code can raise one:   *)
(* a division by a zero value, a missing dictionary key.                   *)
(***************************************************************************)
EXTENDS Integers, Sequences, FiniteSets, TLC

VARIABLES dcf, lbo, ipo, lboSweep, ipoSweep, rec, analysis, run

vars == <<dcf, lbo, ipo, lboSweep, ipoSweep, rec, analysis, run>>

\* A component that takes no part in the specification being checked, and
\* the result of a call that has not returned yet.
Idle == [pc |-> "idle"]

(***************************************************************************)
(* Rational arithmetic standing for Python's float operators.              *)
(***************************************************************************)
Abs(x) == IF x < 0 THEN -x ELSE x

RECURSIVE Gcd(_, _)
Gcd(a, b) == IF b = 0 THEN a ELSE Gcd(b, a % b)

Rat(n, d) ==
    LET g == Gcd(Abs(n), Abs(d))
        s == IF d < 0 THEN -1 ELSE 1
    IN  <<s * (n \div g), s * (d \div g)>>

Zero == Rat(0, 1)
One == Rat(1, 1)
FromInt(n) == Rat(n, 1)

RAdd(x, y) ==
    LET g == Gcd(x[2], y[2])
        l == (x[2] \div g) * y[2]
    IN  Rat(x[1] * (l \div x[2]) + y[1] * (l \div y[2]), l)

RNeg(x) == <<-x[1], x[2]>>

RSub(x, y) == RAdd(x, RNeg(y))

RMul(x, y) ==
    LET a == Rat(x[1], y[2])
        b == Rat(y[1], x[2])
    IN  Rat(a[1] * b[1], a[2] * b[2])

\* x / y for y # 0; the callers model ZeroDivisionError before dividing.
RDiv(x, y) == RMul(x, Rat(y[2], y[1]))

RLt(x, y) == x[1] * y[2] < y[1] * x[2]
RLe(x, y) == x[1] * y[2] <= y[1] * x[2]
RIsZero(x) == x[1] = 0

RMin(x, y) == IF RLe(x, y) THEN x ELSE y
RMax(x, y) == IF RLe(y, x) THEN x ELSE y

RECURSIVE RPow(_, _)
RPow(x, k) == IF k = 0 THEN One ELSE RMul(x, RPow(x, k - 1))

RECURSIVE RSum(_)
RSum(s) == IF s = <<>> THEN Zero ELSE RAdd(Head(s), RSum(Tail(s)))

(***************************************************************************)
(* Optional values: a dictionary key that is absent or None.               *)
(***************************************************************************)
None == [present |-> FALSE, val |-> 0]
Some(v) == [present |-> TRUE, val |-> v]

\* The same for a float kept as a rational.
NoneRat == [present |-> FALSE, val |-> <<0, 1>>]

\* Python truthiness of an optional number: None and 0 are falsy.
Truthy(o) == o.present /\ o.val # 0

(***************************************************************************)
(* calculate_dcf (agents/valuation_agent.py, alt_agents/agent4.py)         *)
(***************************************************************************)
projection_years == 5

ErrorResult(msg) == [error |-> msg]
IsError(r) == "error" \in DOMAIN r

\* fcf_data after the first loop: the reported non-zero free cash flows.
RECURSIVE ReportedFcf(_)
ReportedFcf(metrics) ==
    IF metrics = <<>> THEN <<>>
    ELSE LET year == Head(metrics)
         IN  (IF Truthy(year.fcf) THEN <<FromInt(year.fcf.val)>> ELSE <<>>)
                 \o ReportedFcf(Tail(metrics))

\* fcf_data after the second loop, which runs only when no year reported a
\* free cash flow: ebitda * 0.7 for every year with a non-zero EBITDA.
RECURSIVE EstimatedFcf(_)
EstimatedFcf(metrics) ==
    IF metrics = <<>> THEN <<>>
    ELSE LET year == Head(metrics)
         IN  (IF Truthy(year.ebitda)
                  THEN <<RMul(FromInt(year.ebitda.val), Rat(7, 10))>>
                  ELSE <<>>)
                 \o EstimatedFcf(Tail(metrics))

FcfData(metrics) ==
    IF ReportedFcf(metrics) # <<>> THEN ReportedFcf(metrics) ELSE EstimatedFcf(metrics)

ProjectedFcfsBroken(base_fcf, growth_rate) ==
    [year \in 1..projection_years |->
        RNeg(RMul(base_fcf, RPow(RAdd(One, growth_rate), year)))]

ProjectedFcfs(base_fcf, growth_rate) ==
    [year \in 1..projection_years |-> RMul(base_fcf, RPow(RAdd(One, growth_rate), year))]

PvFcfs(projected_fcfs, wacc) ==
    [i \in 1..Len(projected_fcfs) |-> RDiv(projected_fcfs[i], RPow(RAdd(One, wacc), i))]

EnterpriseValueBroken(pv_fcfs, pv_terminal) == RSum(pv_fcfs)

EnterpriseValue(pv_fcfs, pv_terminal) == RAdd(RSum(pv_fcfs), pv_terminal)

DcfValuation(fcf_data, wacc, growth_rate) ==
    LET base_fcf == RDiv(RSum(fcf_data), FromInt(Len(fcf_data)))
        projected_fcfs == ProjectedFcfs(base_fcf, growth_rate)
    IN  IF RIsZero(RSub(wacc, growth_rate)) \/ RIsZero(RAdd(One, wacc))
        THEN ErrorResult("DCF calculation error: float division by zero")
        ELSE LET terminal_value ==
                     RDiv(RMul(projected_fcfs[projection_years], RAdd(One, growth_rate)),
                          RSub(wacc, growth_rate))
                 pv_fcfs == PvFcfs(projected_fcfs, wacc)
                 pv_terminal ==
                     RDiv(terminal_value, RPow(RAdd(One, wacc), projection_years))
             IN  [enterprise_value |-> EnterpriseValue(pv_fcfs, pv_terminal),
                  present_value_fcf |-> RSum(pv_fcfs),
                  present_value_terminal |-> pv_terminal,
                  projected_fcfs |-> projected_fcfs,
                  historical_average_fcf |-> base_fcf]

DcfDataErrorBroken(financials) ==
    IF ~financials.given \/ ~financials.has_yearly_metrics
    THEN "Invalid financial data format"
    ELSE IF financials.yearly_metrics = <<>>
    THEN "No historical metrics available"
    ELSE IF ReportedFcf(financials.yearly_metrics) = <<>>
    THEN "Insufficient data for DCF calculation"
    ELSE ""

\* financials: [given, has_yearly_metrics, yearly_metrics]; given is FALSE for
\* None or an empty dict, has_yearly_metrics is FALSE for a dict without the
\* key, such as the {"error": ...} record of get_financial_metrics.
DcfDataError(financials) ==
    IF ~financials.given \/ ~financials.has_yearly_metrics
    THEN "Invalid financial data format"
    ELSE IF financials.yearly_metrics = <<>>
    THEN "No historical metrics available"
    ELSE IF FcfData(financials.yearly_metrics) = <<>>
    THEN "Insufficient data for DCF calculation"
    ELSE ""

calculate_dcf(financials, wacc, growth_rate) ==
    IF DcfDataError(financials) # "" THEN ErrorResult(DcfDataError(financials))
    ELSE DcfValuation(FcfData(financials.yearly_metrics), wacc, growth_rate)

\* Bounds and input sets of the DCF specification.
MaxYears == 2

FcfValues == {None, Some(0), Some(14), Some(-6)}
EbitdaValues == {None, Some(0), Some(20)}
YearRecords == [fcf : FcfValues, ebitda : EbitdaValues]

YearlyMetrics == UNION {[1..n -> YearRecords] : n \in 0..MaxYears}

Financials ==
    {[given |-> FALSE, has_yearly_metrics |-> FALSE, yearly_metrics |-> <<>>],
     [given |-> TRUE, has_yearly_metrics |-> FALSE, yearly_metrics |-> <<>>]}
    \cup {[given |-> TRUE, has_yearly_metrics |-> TRUE, yearly_metrics |-> m] :
             m \in YearlyMetrics}

WaccRates == {Rat(-1, 1), Zero, Rat(1, 4), Rat(1, 2)}
GrowthRates == {Zero, Rat(1, 4), Rat(1, 2)}

DcfInit ==
    /\ dcf \in [pc : {"call"}, financials : Financials, wacc : WaccRates,
                growth_rate : GrowthRates, result : {Idle}]
    /\ lbo = Idle /\ ipo = Idle /\ lboSweep = Idle /\ ipoSweep = Idle /\ rec = Idle
    /\ analysis = Idle /\ run = Idle

CalculateDcf ==
    /\ dcf.pc = "call"
    /\ dcf' = [dcf EXCEPT !.pc = "done",
                          !.result = calculate_dcf(dcf.financials, dcf.wacc, dcf.growth_rate)]
    /\ UNCHANGED <<lbo, ipo, lboSweep, ipoSweep, rec, analysis, run>>

DcfNext == CalculateDcf

DcfSpec == DcfInit /\ [][DcfNext]_vars

DcfReturned == dcf.pc = "done" /\ ~IsError(dcf.result)

\* C1: whenever calculate_dcf returns a result (not an error) for wacc >
\* growth_rate, enterprise_value = present_value_fcf + present_value_terminal,
\* present_value_fcf being the sum of the discounted projected cash flows.
C1_DcfIdentity ==
    (DcfReturned /\ RLt(dcf.growth_rate, dcf.wacc)) =>
        /\ dcf.result.enterprise_value =
               RAdd(dcf.result.present_value_fcf, dcf.result.present_value_terminal)
        /\ dcf.result.present_value_fcf =
               RSum([i \in 1..projection_years |->
                       RDiv(dcf.result.projected_fcfs[i],
                            RPow(RAdd(One, dcf.wacc), i))])

C1_Witness ==
    /\ DcfReturned
    /\ RLt(dcf.growth_rate, dcf.wacc)
    /\ ~RIsZero(dcf.result.present_value_fcf)
    /\ ~RIsZero(dcf.result.present_value_terminal)

\* C2: calculate_dcf with wacc <= growth_rate (data from which a base cash
\* flow is computable) never returns a numeric enterprise value: it ends in
\* an error outcome.
C2_InvalidSpreadIsError ==
    (dcf.pc = "done" /\ RLe(dcf.wacc, dcf.growth_rate)) => IsError(dcf.result)

\* The cash flows of a substitution made year by year: the reported free
\* cash flow of a year when it is non-zero, else 0.7 times the year's EBITDA
\* when that is non-zero.
RECURSIVE PerYearFcf(_)
PerYearFcf(metrics) ==
    IF metrics = <<>> THEN <<>>
    ELSE LET year == Head(metrics)
         IN  (IF Truthy(year.fcf) THEN <<FromInt(year.fcf.val)>>
              ELSE IF Truthy(year.ebitda)
              THEN <<RMul(FromInt(year.ebitda.val), Rat(7, 10))>>
              ELSE <<>>)
                 \o PerYearFcf(Tail(metrics))

\* C13: the base cash flow of a returned valuation is the mean over the
\* years' cash flows with the EBITDA estimate substituted year by year, also
\* when other years of the company report a non-zero free cash flow.
C13_SubstitutionPerYear ==
    DcfReturned =>
        LET fcfs == PerYearFcf(dcf.financials.yearly_metrics)
        IN  dcf.result.historical_average_fcf = RDiv(RSum(fcfs), FromInt(Len(fcfs)))

\* No base cash flow can be computed: no yearly records, or no year with a
\* non-zero free cash flow or a non-zero EBITDA.
NoBaseCashFlow(financials) ==
    \/ ~financials.given \/ ~financials.has_yearly_metrics
    \/ financials.yearly_metrics = <<>>
    \/ \A n \in 1..Len(financials.yearly_metrics) :
           /\ ~Truthy(financials.yearly_metrics[n].fcf)
           /\ ~Truthy(financials.yearly_metrics[n].ebitda)

IsDataError(r) ==
    /\ IsError(r)
    /\ r.error \in {"Invalid financial data format", "No historical metrics available",
                    "Insufficient data for DCF calculation"}

\* C14: calculate_dcf ends in a data error exactly when no base cash flow
\* can be computed, and then returns no numeric valuation.
C14_DataErrorIffNoCashFlow ==
    dcf.pc = "done" =>
        /\ IsDataError(dcf.result) <=> NoBaseCashFlow(dcf.financials)
        /\ NoBaseCashFlow(dcf.financials) => DOMAIN dcf.result = {"error"}

\* Two yearly records, neither with a usable figure; the rates are valid.
C14_Witness ==
    /\ dcf.pc = "done"
    /\ Len(dcf.financials.yearly_metrics) >= 2
    /\ RLt(dcf.growth_rate, dcf.wacc)
    /\ dcf.result = ErrorResult("Insufficient data for DCF calculation")

(***************************************************************************)
(* calculate_dcf called twice on the same arguments.  given is the         *)
(* financials record as the caller built it, financials the record the     *)
(* function was handed; the function assigns to neither and keeps nothing  *)
(* between calls.                                                          *)
(***************************************************************************)
DcfRepeatInit ==
    /\ dcf \in {[pc |-> "call", financials |-> f, given |-> f, wacc |-> w,
                  growth_rate |-> g, result |-> Idle, previous |-> Idle] :
                     f \in Financials, w \in WaccRates, g \in GrowthRates}
    /\ lbo = Idle /\ ipo = Idle /\ lboSweep = Idle /\ ipoSweep = Idle /\ rec = Idle
    /\ analysis = Idle /\ run = Idle

CalculateDcfAgain ==
    /\ dcf.pc = "done"
    /\ "previous" \in DOMAIN dcf
    /\ dcf' = [dcf EXCEPT !.pc = "repeated",
                          !.previous = dcf.result,
                          !.result = calculate_dcf(dcf.financials, dcf.wacc, dcf.growth_rate)]
    /\ UNCHANGED <<lbo, ipo, lboSweep, ipoSweep, rec, analysis, run>>

DcfRepeatNext == CalculateDcf \/ CalculateDcfAgain

DcfRepeatSpec == DcfRepeatInit /\ [][DcfRepeatNext]_vars

\* The mean of the cash flows the valuation is based on is positive.
PositiveMeanFcf(financials) ==
    /\ ~NoBaseCashFlow(financials)
    /\ RLt(Zero, RSum(FcfData(financials.yearly_metrics)))

EmptyDict == <<>>
IsEmpty(r) == DOMAIN r = {}

\* Number of sign changes of a cash-flow stream, zeros skipped.
RECURSIVE SignChanges(_, _)
SignChanges(cfs, last) ==
    IF cfs = <<>> THEN 0
    ELSE LET s == IF Head(cfs)[1] > 0 THEN 1 ELSE IF Head(cfs)[1] < 0 THEN -1 ELSE 0
         IN  IF s = 0 THEN SignChanges(Tail(cfs), last)
             ELSE (IF last # 0 /\ s # last THEN 1 ELSE 0) + SignChanges(Tail(cfs), s)

\* npf.irr(cash_flows): not-a-number when the stream has no sign change,
\* else the value numpy computes for the stream, kept as a term over it.
IrrNan == [nan |-> TRUE]
Irr(cash_flows) ==
    IF SignChanges(cash_flows, 0) = 0 THEN IrrNan ELSE [irr_of |-> cash_flows]

\* The outcomes of np.isnan(irr): a stream without a sign change has no root,
\* one with an odd number of sign changes has one, otherwise either.
IsNanOutcomes(cash_flows) ==
    LET n == SignChanges(cash_flows, 0)
    IN  IF n = 0 THEN {TRUE} ELSE IF n % 2 = 1 THEN {FALSE} ELSE {TRUE, FALSE}

DebtFinancing(ev, debt_ratio) == RMul(ev, debt_ratio)

EquityContributionBroken(ev, debt) == ev

EquityContribution(ev, debt) == RSub(ev, debt)

FcfGrowth(fcf, fcf_growth_rate, year) ==
    RMul(fcf, RPow(RAdd(One, fcf_growth_rate), year))

DebtRepaymentNegated(fcf_growth, debt_repayment_pct, remaining_debt) ==
    RMin(RNeg(RMul(fcf_growth, debt_repayment_pct)), remaining_debt)

DebtRepaymentBroken(fcf_growth, debt_repayment_pct, remaining_debt) ==
    RMul(fcf_growth, debt_repayment_pct)

DebtRepayment(fcf_growth, debt_repayment_pct, remaining_debt) ==
    RMin(RMul(fcf_growth, debt_repayment_pct), remaining_debt)

ExitValue(ebitda, exit_ebitda_growth, holding_period, exit_multiple) ==
    RMul(RMul(ebitda, RPow(RAdd(One, exit_ebitda_growth), holding_period)),
         exit_multiple)

MoicBroken(exit_equity, equity) ==
    IF ~RIsZero(equity) THEN [value |-> exit_equity]
    ELSE [text |-> "N/A (division by zero)"]

Moic(exit_equity, equity) ==
    IF ~RIsZero(equity) THEN [value |-> RDiv(exit_equity, equity)]
    ELSE [text |-> "N/A (division by zero)"]

IrrFieldBroken(irr, isnan) == [value |-> irr]

\* The irr field of the result: the float, or the text the code substitutes.
IrrField(irr, isnan) ==
    IF isnan THEN [text |-> "Unable to calculate (nan)"] ELSE [value |-> irr]

\* Bounds and input sets of the LBO specification.
MaxHolding == 2

LboEv == {None, Some(-100), Some(0), Some(1000)}
LboEbitda == {0, 20}
LboFcf == {-50, 0, 40, 5000}
LboCash == {0, 10}

LboParams ==
    [holding_period : 0..MaxHolding,
     debt_ratio : {Zero, Rat(7, 10), One},
     interest_rate : {Zero, Rat(1, 10)},
     fcf_growth_rate : {Rat(-1, 2), Zero, Rat(1, 10)},
     debt_repayment_pct : {Rat(3, 10), One},
     exit_multiple : {FromInt(10)},
     exit_ebitda_growth : {Zero, Rat(1, 4)}]

LboSingleInit ==
    /\ lbo \in [pc : {"call"},
                data : [ev : LboEv, ebitda : LboEbitda, fcf : LboFcf, cash : {0}],
                p : LboParams,
                year : {0}, debt : {Zero}, equity : {Zero}, remaining_debt : {Zero},
                debt_before : {Zero}, fcf_growth : {Zero}, debt_repayment : {Zero},
                interest_expense : {Zero}, projected_fcf : {<<>>}, result : {Idle}]
    /\ dcf = Idle /\ ipo = Idle /\ lboSweep = Idle /\ ipoSweep = Idle /\ rec = Idle
    /\ analysis = Idle /\ run = Idle

\* Lines 38-52: fetch the data and split the purchase price.  An enterprise
\* value of None raises TypeError at ev * debt_ratio and the model returns {}.
LboStart ==
    /\ lbo.pc = "call"
    /\ IF ~lbo.data.ev.present
       THEN lbo' = [lbo EXCEPT !.pc = "done", !.result = EmptyDict]
       ELSE LET ev == FromInt(lbo.data.ev.val)
                debt == DebtFinancing(ev, lbo.p.debt_ratio)
            IN  lbo' = [lbo EXCEPT !.pc = "loop", !.debt = debt,
                                   !.equity = EquityContribution(ev, debt),
                                   !.remaining_debt = debt, !.year = 0,
                                   !.projected_fcf = <<>>]
    /\ UNCHANGED <<dcf, ipo, lboSweep, ipoSweep, rec, analysis, run>>

\* Lines 53-59: one year of the holding period.
LboYear ==
    /\ lbo.pc = "loop"
    /\ lbo.year < lbo.p.holding_period
    /\ LET fcf_growth == FcfGrowth(FromInt(lbo.data.fcf), lbo.p.fcf_growth_rate, lbo.year)
           debt_repayment ==
               DebtRepayment(fcf_growth, lbo.p.debt_repayment_pct, lbo.remaining_debt)
           remaining_debt == RSub(lbo.remaining_debt, debt_repayment)
           interest_expense == RMul(remaining_debt, lbo.p.interest_rate)
           free_cash_after_debt == RSub(RSub(fcf_growth, interest_expense), debt_repayment)
       IN  lbo' = [lbo EXCEPT !.year = lbo.year + 1,
                              !.debt_before = lbo.remaining_debt,
                              !.fcf_growth = fcf_growth,
                              !.debt_repayment = debt_repayment,
                              !.remaining_debt = remaining_debt,
                              !.interest_expense = interest_expense,
                              !.projected_fcf = Append(lbo.projected_fcf, free_cash_after_debt)]
    /\ UNCHANGED <<dcf, ipo, lboSweep, ipoSweep, rec, analysis, run>>

\* Lines 61-105: exit value, IRR, MOIC and the returned dictionary.
LboExit ==
    /\ lbo.pc = "loop"
    /\ lbo.year = lbo.p.holding_period
    /\ LET exit_value == ExitValue(FromInt(lbo.data.ebitda), lbo.p.exit_ebitda_growth,
                                   lbo.p.holding_period, lbo.p.exit_multiple)
           exit_equity == RSub(exit_value, lbo.remaining_debt)
           cash_flows == <<RNeg(lbo.equity)>> \o lbo.projected_fcf \o <<exit_equity>>
       IN  \E isnan \in IsNanOutcomes(cash_flows) :
             lbo' = [lbo EXCEPT
                       !.pc = "done",
                       !.result =
                          [purchase_price |->
                              [enterprise_value |-> FromInt(lbo.data.ev.val),
                               equity_contribution |-> lbo.equity,
                               debt_financing |-> lbo.debt,
                               debt_ratio |-> lbo.p.debt_ratio],
                           projections |->
                              [projected_fcf |-> lbo.projected_fcf,
                               exit_value |-> exit_value,
                               remaining_debt |-> lbo.remaining_debt],
                           returns |->
                              [irr |-> IrrField(Irr(cash_flows), isnan),
                               moic |-> Moic(exit_equity, lbo.equity),
                               exit_equity |-> exit_equity]]]
    /\ UNCHANGED <<dcf, ipo, lboSweep, ipoSweep, rec, analysis, run>>

(***************************************************************************)
(* FinModelsTools.perform_lbo_sensitivity_analysis (finmodels_tools.py)    *)
(***************************************************************************)
NoColumns ==
    [fcf_growth_rate |-> <<>>, exit_multiple |-> <<>>, interest_rate |-> <<>>,
     irr |-> <<>>, moic |-> <<>>]

\* Bounds and input sets of the LBO sweep.
MaxRange == 2

FcfGrowthRates(n) == [x \in 1..n |-> Rat(x - 1, 10)]
ExitMultiples(n) == [x \in 1..n |-> FromInt(6 + 2 * x)]
InterestRates(n) == [x \in 1..n |-> Rat(5 + x, 100)]

LboSweepParams ==
    [fcf_growth_rates : {FcfGrowthRates(n) : n \in 1..MaxRange},
     exit_multiples : {ExitMultiples(n) : n \in 1..MaxRange},
     interest_rates : {InterestRates(n) : n \in 1..MaxRange},
     holding_period : 0..MaxHolding,
     debt_ratio : {Rat(7, 10), One},
     debt_repayment_pct : {Rat(3, 10)},
     exit_ebitda_growth : {Zero}]

LboSweepInit ==
    /\ lboSweep \in
         [pc : {"call"},
          data : [ev : LboEv, ebitda : {20}, fcf : {-50, 40, 5000}, cash : LboCash],
          p : LboSweepParams,
          i : {1}, j : {1}, k : {1},
          year : {0}, debt : {Zero}, equity : {Zero}, remaining_debt : {Zero},
          debt_before : {Zero}, fcf_growth : {Zero}, debt_repayment : {Zero},
          interest_expense : {Zero}, projected_fcf : {<<>>},
          results : {NoColumns}, result : {Idle}]
    /\ dcf = Idle /\ lbo = Idle /\ ipo = Idle /\ ipoSweep = Idle /\ rec = Idle
    /\ analysis = Idle /\ run = Idle

\* Lines 245-265: fetch the data and initialise the result columns.  An
\* enterprise value of None raises TypeError in the first cell (line 272).
SweepStart ==
    /\ lboSweep.pc = "call"
    /\ IF ~lboSweep.data.ev.present
       THEN lboSweep' = [lboSweep EXCEPT !.pc = "done", !.result = EmptyDict]
       ELSE lboSweep' = [lboSweep EXCEPT !.pc = "cell", !.results = NoColumns,
                                         !.i = 1, !.j = 1, !.k = 1]
    /\ UNCHANGED <<dcf, lbo, ipo, ipoSweep, rec, analysis, run>>

SweepCellBeginBroken ==
    /\ lboSweep.pc = "cell"
    /\ LET ev == FromInt(lboSweep.data.ev.val)
           debt == DebtFinancing(ev, lboSweep.p.debt_ratio)
       IN  lboSweep' = [lboSweep EXCEPT
                          !.pc = "years", !.debt = debt,
                          !.equity = EquityContribution(ev, debt),
                          !.projected_fcf = <<>>,
                          !.remaining_debt =
                              IF lboSweep.results.irr = <<>> THEN debt
                              ELSE lboSweep.remaining_debt,
                          !.year = 0]
    /\ UNCHANGED <<dcf, lbo, ipo, ipoSweep, rec, analysis, run>>

\* Lines 271-277: the cell's purchase price split and fresh projection state.
SweepCellBegin ==
    /\ lboSweep.pc = "cell"
    /\ LET ev == FromInt(lboSweep.data.ev.val)
           debt == DebtFinancing(ev, lboSweep.p.debt_ratio)
       IN  lboSweep' = [lboSweep EXCEPT !.pc = "years", !.debt = debt,
                                        !.equity = EquityContribution(ev, debt),
                                        !.projected_fcf = <<>>,
                                        !.remaining_debt = debt, !.year = 0]
    /\ UNCHANGED <<dcf, lbo, ipo, ipoSweep, rec, analysis, run>>

\* Lines 278-303: one year of the cell's holding period.
SweepYear ==
    /\ lboSweep.pc = "years"
    /\ lboSweep.year < lboSweep.p.holding_period
    /\ LET growth_rate == lboSweep.p.fcf_growth_rates[lboSweep.i]
           rate == lboSweep.p.interest_rates[lboSweep.k]
           fcf_growth == FcfGrowth(FromInt(lboSweep.data.fcf), growth_rate, lboSweep.year)
           debt_repayment ==
               DebtRepayment(fcf_growth, lboSweep.p.debt_repayment_pct,
                             lboSweep.remaining_debt)
           remaining_debt == RSub(lboSweep.remaining_debt, debt_repayment)
           interest_expense == RMul(remaining_debt, rate)
           available_cash == FromInt(lboSweep.data.cash)
           free_cash_after_debt ==
               RMax(RSub(RSub(fcf_growth, interest_expense), debt_repayment),
                    RNeg(available_cash))
       IN  lboSweep' = [lboSweep EXCEPT
                          !.year = lboSweep.year + 1,
                          !.debt_before = lboSweep.remaining_debt,
                          !.fcf_growth = fcf_growth,
                          !.debt_repayment = debt_repayment,
                          !.remaining_debt = remaining_debt,
                          !.interest_expense = interest_expense,
                          !.projected_fcf =
                              Append(lboSweep.projected_fcf, free_cash_after_debt)]
    /\ UNCHANGED <<dcf, lbo, ipo, ipoSweep, rec, analysis, run>>

LastCell(sw) ==
    /\ sw.i = Len(sw.p.fcf_growth_rates)
    /\ sw.j = Len(sw.p.exit_multiples)
    /\ sw.k = Len(sw.p.interest_rates)

NextCellBroken(sw) ==
    IF sw.j < Len(sw.p.exit_multiples) THEN [i |-> sw.i, j |-> sw.j + 1, k |-> sw.k]
    ELSE IF sw.k < Len(sw.p.interest_rates) THEN [i |-> sw.i, j |-> 1, k |-> sw.k + 1]
    ELSE [i |-> sw.i + 1, j |-> 1, k |-> 1]

\* The loop variables of the cell after (i, j, k): interest rates innermost.
NextCell(sw) ==
    IF sw.k < Len(sw.p.interest_rates) THEN [i |-> sw.i, j |-> sw.j, k |-> sw.k + 1]
    ELSE IF sw.j < Len(sw.p.exit_multiples) THEN [i |-> sw.i, j |-> sw.j + 1, k |-> 1]
    ELSE [i |-> sw.i + 1, j |-> 1, k |-> 1]

\* Lines 305-332: the cell's exit value, IRR and MOIC, appended to the
\* columns.  exit_equity / total_investment raises ZeroDivisionError when the
\* equity is 0: the handler of line 330 then returns {} for the whole sweep.
\* After the last cell the columns are returned (line 329).
SweepCellEnd ==
    /\ lboSweep.pc = "years"
    /\ lboSweep.year = lboSweep.p.holding_period
    /\ LET growth_rate == lboSweep.p.fcf_growth_rates[lboSweep.i]
           multiple == lboSweep.p.exit_multiples[lboSweep.j]
           rate == lboSweep.p.interest_rates[lboSweep.k]
           exit_value == ExitValue(FromInt(lboSweep.data.ebitda),
                                   lboSweep.p.exit_ebitda_growth,
                                   lboSweep.p.holding_period, multiple)
           total_investment == lboSweep.equity
           exit_equity == RSub(exit_value, lboSweep.remaining_debt)
           cash_flows ==
               <<RNeg(total_investment)>> \o lboSweep.projected_fcf \o <<exit_equity>>
           results ==
               [fcf_growth_rate |-> Append(lboSweep.results.fcf_growth_rate, growth_rate),
                exit_multiple |-> Append(lboSweep.results.exit_multiple, multiple),
                interest_rate |-> Append(lboSweep.results.interest_rate, rate),
                irr |-> Append(lboSweep.results.irr, Irr(cash_flows)),
                moic |-> Append(lboSweep.results.moic,
                                RDiv(exit_equity, total_investment))]
           next == NextCell(lboSweep)
       IN  IF RIsZero(total_investment)
           THEN lboSweep' = [lboSweep EXCEPT !.pc = "done", !.result = EmptyDict]
           ELSE IF LastCell(lboSweep)
           THEN lboSweep' = [lboSweep EXCEPT !.pc = "done", !.results = results,
                                             !.result = results]
           ELSE lboSweep' = [lboSweep EXCEPT !.pc = "cell", !.results = results,
                                             !.i = next.i, !.j = next.j, !.k = next.k]
    /\ UNCHANGED <<dcf, lbo, ipo, ipoSweep, rec, analysis, run>>

LboInit == LboSingleInit \/ LboSweepInit

LboNext ==
    \/ LboStart \/ LboYear \/ LboExit
    \/ SweepStart \/ SweepCellBegin \/ SweepYear \/ SweepCellEnd

LboSpec == LboInit /\ [][LboNext]_vars

LboReturned == lbo.pc = "done" /\ ~IsEmpty(lbo.result)
SweepReturned == lboSweep.pc = "done" /\ ~IsEmpty(lboSweep.result)

\* C3: in the LBO projection loop of the single model and of every sweep
\* cell, after each year remaining_debt >= 0 and the year's repayment is at
\* most min(grown_fcf * debt_repayment_pct, remaining_debt before it),
\* whatever the sign of the free cash flow.
C3_DebtNonNegative ==
    /\ (lbo.pc \in {"loop", "done"} /\ lbo.year > 0) =>
           /\ RLe(Zero, lbo.remaining_debt)
           /\ RLe(lbo.debt_repayment,
                  RMin(RMul(lbo.fcf_growth, lbo.p.debt_repayment_pct), lbo.debt_before))
           /\ lbo.remaining_debt = RSub(lbo.debt_before, lbo.debt_repayment)
    /\ (lboSweep.pc \in {"years", "cell", "done"} /\ lboSweep.year > 0) =>
           /\ RLe(Zero, lboSweep.remaining_debt)
           /\ RLe(lboSweep.debt_repayment,
                  RMin(RMul(lboSweep.fcf_growth, lboSweep.p.debt_repayment_pct),
                       lboSweep.debt_before))
           /\ lboSweep.remaining_debt =
                  RSub(lboSweep.debt_before, lboSweep.debt_repayment)

\* A year with a negative free cash flow has run: the repayment is negative
\* and the balance has grown.
C3_Witness ==
    /\ lbo.pc = "loop" /\ lbo.year > 0
    /\ lbo.data.fcf < 0
    /\ RLt(lbo.debt_repayment, Zero)
    /\ RLt(lbo.debt_before, lbo.remaining_debt)

\* The step is one year of a projection whose base free cash flow, growth
\* rate, repayment share and initial debt are all non-negative.
NonNegativeYear(before, after, growth_rate) ==
    /\ after.year = before.year + 1
    /\ before.data.fcf >= 0
    /\ RLe(Zero, growth_rate)
    /\ RLe(Zero, before.p.debt_repayment_pct)
    /\ RLe(Zero, before.debt)

\* The balance does not grow over the step, stays within the initial debt,
\* and a balance of 0 stays 0 with no interest.
DebtShrinks(before, after) ==
    /\ RLe(after.remaining_debt, before.remaining_debt)
    /\ RLe(after.remaining_debt, before.debt)
    /\ RIsZero(before.remaining_debt) =>
           RIsZero(after.remaining_debt) /\ RIsZero(after.interest_expense)

\* C29: in the LBO projection of the single model and of every sweep cell,
\* when the base free cash flow, fcf_growth_rate, debt_repayment_pct and the
\* initial debt are non-negative, remaining_debt never increases from one
\* year to the next and never exceeds the initial debt; once it is 0 it
\* stays 0 and the interest expense of every later year is 0.
C29_DebtMonotone ==
    [][/\ (lbo.pc = "loop" /\ NonNegativeYear(lbo, lbo', lbo.p.fcf_growth_rate)) =>
              DebtShrinks(lbo, lbo')
       /\ (lboSweep.pc = "years"
             /\ NonNegativeYear(lboSweep, lboSweep',
                                lboSweep.p.fcf_growth_rates[lboSweep.i])) =>
              DebtShrinks(lboSweep, lboSweep')]_vars

\* A debt that was positive at the purchase has been repaid in full, and a
\* further year at a positive interest rate has run on the balance of 0.
C29_Witness ==
    /\ lbo.pc = "loop" /\ lbo.year = 2
    /\ lbo.data.fcf > 0 /\ RLe(Zero, lbo.p.fcf_growth_rate)
    /\ RLt(Zero, lbo.debt) /\ RLt(Zero, lbo.p.interest_rate)
    /\ RIsZero(lbo.debt_before) /\ RIsZero(lbo.remaining_debt)
    /\ RIsZero(lbo.interest_expense)

\* C4: whenever equity_contribution # 0, moic = exit_equity /
\* equity_contribution with exit_equity = exit_value - remaining_debt at the
\* end of the holding period, in the LBO result and in every sweep cell.
C4_MoicConsistency ==
    /\ (LboReturned /\ ~RIsZero(lbo.result.purchase_price.equity_contribution)) =>
           /\ lbo.result.returns.moic =
                  [value |-> RDiv(lbo.result.returns.exit_equity,
                                  lbo.result.purchase_price.equity_contribution)]
           /\ lbo.result.returns.exit_equity =
                  RSub(lbo.result.projections.exit_value, lbo.remaining_debt)
           /\ lbo.result.projections.remaining_debt = lbo.remaining_debt
    /\ (lboSweep.pc \in {"cell", "done"} /\ Len(lboSweep.results.moic) > 0
            /\ ~RIsZero(lboSweep.equity)) =>
           LET n == Len(lboSweep.results.moic)
               exit_value == ExitValue(FromInt(lboSweep.data.ebitda),
                                       lboSweep.p.exit_ebitda_growth,
                                       lboSweep.p.holding_period,
                                       lboSweep.results.exit_multiple[n])
           IN  lboSweep.results.moic[n] =
                   RDiv(RSub(exit_value, lboSweep.remaining_debt), lboSweep.equity)

C4_Witness ==
    /\ LboReturned
    /\ ~RIsZero(lbo.result.purchase_price.equity_contribution)
    /\ lbo.p.holding_period > 0
    /\ RLt(Zero, lbo.result.projections.remaining_debt)
    /\ "value" \in DOMAIN lbo.result.returns.moic
    /\ ~RIsZero(lbo.result.returns.moic.value)

\* C10: in every returned LBO result debt_financing = enterprise_value *
\* debt_ratio, equity_contribution = enterprise_value - debt_financing, and
\* the two add up to enterprise_value (1000 at 0.7 gives 700 and 300).
C10_PurchasePriceSplit ==
    LboReturned =>
        LET pp == lbo.result.purchase_price
        IN  /\ pp.enterprise_value = FromInt(lbo.data.ev.val)
            /\ pp.debt_financing = RMul(pp.enterprise_value, pp.debt_ratio)
            /\ pp.equity_contribution = RSub(pp.enterprise_value, pp.debt_financing)
            /\ RAdd(pp.debt_financing, pp.equity_contribution) = pp.enterprise_value
            /\ (pp.enterprise_value = FromInt(1000) /\ pp.debt_ratio = Rat(7, 10)) =>
                   (pp.equity_contribution = FromInt(300)
                        /\ pp.debt_financing = FromInt(700))

C10_Witness ==
    /\ LboReturned
    /\ lbo.result.purchase_price.enterprise_value = FromInt(1000)
    /\ lbo.result.purchase_price.debt_ratio = Rat(7, 10)
    /\ lbo.result.purchase_price.equity_contribution = FromInt(300)
    /\ lbo.result.purchase_price.debt_financing = FromInt(700)

\* C11: when equity_contribution = 0 (debt_ratio = 1 or enterprise value 0)
\* the LBO model fails: it returns no LBO result, with or without a MOIC.
C11_ZeroEquityFails ==
    (lbo.pc = "done" /\ lbo.data.ev.present /\ RIsZero(lbo.equity)) =>
        IsEmpty(lbo.result)

C22_YearStepOrder ==
    /\ (lbo.pc \in {"loop", "done"} /\ lbo.year > 0) =>
           /\ lbo.fcf_growth =
                  RMul(FromInt(lbo.data.fcf),
                       RPow(RAdd(One, lbo.p.fcf_growth_rate), lbo.year))
           /\ lbo.remaining_debt = RSub(lbo.debt_before, lbo.debt_repayment)
           /\ lbo.interest_expense = RMul(lbo.remaining_debt, lbo.p.interest_rate)
           /\ lbo.projected_fcf[lbo.year] =
                  RSub(RSub(lbo.fcf_growth, lbo.interest_expense), lbo.debt_repayment)
    /\ (lboSweep.pc = "years" /\ lboSweep.year > 0) =>
           /\ lboSweep.fcf_growth =
                  RMul(FromInt(lboSweep.data.fcf),
                       RPow(RAdd(One, lboSweep.p.fcf_growth_rates[lboSweep.i]),
                            lboSweep.year))
           /\ lboSweep.remaining_debt =
                  RSub(lboSweep.debt_before, lboSweep.debt_repayment)
           /\ lboSweep.interest_expense =
                  RMul(lboSweep.remaining_debt, lboSweep.p.interest_rates[lboSweep.k])
           /\ lboSweep.projected_fcf[lboSweep.year] =
                  RSub(RSub(lboSweep.fcf_growth, lboSweep.interest_expense),
                       lboSweep.debt_repayment)

(***************************************************************************)
(* FinModelsTools.calculate_ipo_valuation (finmodels_tools.py)             *)
(***************************************************************************)
\* value [0] or 0
OrZero(o) == IF Truthy(o) THEN o.val ELSE 0

\* Lines 144-150: the sector multiple, else the company's P/E, else 15.
SectorPe(sector_pe, pe_ratio) ==
    IF ~sector_pe.present \/ sector_pe.val = 0
    THEN (IF Truthy(pe_ratio) THEN pe_ratio.val ELSE 15)
    ELSE sector_pe.val

\* Line 153.
EvRevenue(revenue, sector_pe) ==
    IF revenue # 0 /\ sector_pe # 0 THEN FromInt(revenue * sector_pe) ELSE Zero

\* Lines 154 and 379.
EvEbitda(ebitda) == IF ebitda # 0 THEN FromInt(ebitda * 10) ELSE Zero

Raised == [raised |-> TRUE]
HasRaised(r) == "raised" \in DOMAIN r

BlendedEnterpriseValueBroken(ev_revenue, ev_ebitda, revenue_growth) ==
    IF ~RIsZero(ev_revenue) /\ ~RIsZero(ev_ebitda)
    THEN IF ~revenue_growth.present THEN Raised
         ELSE IF RLe(Rat(3, 10), revenue_growth.val)
         THEN [value |-> RAdd(RMul(ev_revenue, Rat(7, 10)), RMul(ev_ebitda, Rat(3, 10)))]
         ELSE [value |-> RAdd(RMul(ev_revenue, Rat(3, 10)), RMul(ev_ebitda, Rat(7, 10)))]
    ELSE IF ~RIsZero(ev_revenue) THEN [value |-> ev_revenue]
    ELSE [value |-> ev_ebitda]

\* Lines 160-169 and 381-390: the blended enterprise value; comparing a
\* revenue growth of None with 0.3 raises TypeError.
BlendedEnterpriseValue(ev_revenue, ev_ebitda, revenue_growth) ==
    IF ~RIsZero(ev_revenue) /\ ~RIsZero(ev_ebitda)
    THEN IF ~revenue_growth.present THEN Raised
         ELSE IF RLt(Rat(3, 10), revenue_growth.val)
         THEN [value |-> RAdd(RMul(ev_revenue, Rat(7, 10)), RMul(ev_ebitda, Rat(3, 10)))]
         ELSE [value |-> RAdd(RMul(ev_revenue, Rat(3, 10)), RMul(ev_ebitda, Rat(7, 10)))]
    ELSE IF ~RIsZero(ev_revenue) THEN [value |-> ev_revenue]
    ELSE [value |-> ev_ebitda]

PriceLowBroken(base_price, buffer) == RMul(base_price, RAdd(One, buffer))

PriceLow(base_price, buffer) == RMul(base_price, RSub(One, buffer))

PriceHigh(base_price, buffer) == RMul(base_price, RAdd(One, buffer))

\* Lines 171-181 and 406-418: equity value, share count and price range of
\* one valuation.  A debt or market cap of None raises TypeError, a market
\* cap of 0 or a share count of 0 raises ZeroDivisionError.
Offering(enterprise_value, debt, market_cap, target_float, buffer) ==
    IF ~debt.present \/ ~market_cap.present \/ market_cap.val = 0 THEN Raised
    ELSE LET equity_value == RSub(enterprise_value, FromInt(debt.val))
             shares_outstanding == RDiv(equity_value, FromInt(market_cap.val))
         IN  IF RIsZero(shares_outstanding) THEN Raised
             ELSE LET base_price == RDiv(equity_value, shares_outstanding)
                  IN  [equity_value |-> equity_value,
                       shares_outstanding |-> shares_outstanding,
                       float_shares |-> RMul(shares_outstanding, target_float),
                       base_price |-> base_price,
                       price_low |-> PriceLow(base_price, buffer),
                       price_high |-> PriceHigh(base_price, buffer)]

\* Lines 184-187.
Multiple(ev, metric) ==
    IF metric # 0 THEN [value |-> RDiv(ev, FromInt(metric))] ELSE [text |-> "N/A"]

calculate_ipo_valuation(data, target_float, price_range_buffer) ==
    LET revenue == OrZero(data.ev_to_sales)
        ebitda == OrZero(data.ev_to_ebitda)
        sector_pe == SectorPe(data.sector_pe, data.pe_ratio)
        ev_revenue == EvRevenue(revenue, sector_pe)
        ev_ebitda == EvEbitda(ebitda)
        enterprise_value == BlendedEnterpriseValue(ev_revenue, ev_ebitda, data.revenue_growth)
        offering == Offering(enterprise_value.value, data.debt_to_equity, data.market_cap,
                             target_float, price_range_buffer)
    IN  IF HasRaised(enterprise_value) THEN EmptyDict
        ELSE IF HasRaised(offering) THEN EmptyDict
        ELSE [valuation |->
                 [enterprise_value |-> enterprise_value.value,
                  equity_value |-> offering.equity_value,
                  ev_revenue_multiple |-> Multiple(ev_revenue, revenue),
                  ev_ebitda_multiple |-> Multiple(ev_ebitda, ebitda)],
              offering |->
                 [shares_outstanding |-> offering.shares_outstanding,
                  float_shares |-> offering.float_shares,
                  price_range |-> [low |-> offering.price_low,
                                   base |-> offering.base_price,
                                   high |-> offering.price_high]],
              comparables |->
                 [sector_pe |-> sector_pe, revenue_growth |-> data.revenue_growth]]

\* Input sets of the IPO specification.
IpoData ==
    [ev_to_sales : {None, Some(4)},
     ev_to_ebitda : {None, Some(12), Some(-5)},
     pe_ratio : {None, Some(0), Some(20)},
     sector_pe : {None, Some(0), Some(25)},
     revenue_growth : {NoneRat, [present |-> TRUE, val |-> Rat(3, 10)],
                       [present |-> TRUE, val |-> Rat(1, 2)]},
     debt_to_equity : {None, Some(2), Some(120)},
     market_cap : {None, Some(0), Some(50)}]

IpoSingleInit ==
    /\ ipo \in [pc : {"call"}, data : IpoData,
                target_float : {Rat(1, 5)},
                price_range_buffer : {Zero, Rat(3, 20), Rat(3, 2)},
                result : {Idle}]
    /\ dcf = Idle /\ lbo = Idle /\ lboSweep = Idle /\ ipoSweep = Idle /\ rec = Idle
    /\ analysis = Idle /\ run = Idle

CalculateIpoValuation ==
    /\ ipo.pc = "call"
    /\ ipo' = [ipo EXCEPT !.pc = "done",
                          !.result = calculate_ipo_valuation(ipo.data, ipo.target_float,
                                                             ipo.price_range_buffer)]
    /\ UNCHANGED <<dcf, lbo, lboSweep, ipoSweep, rec, analysis, run>>

(***************************************************************************)
(* FinModelsTools.perform_ipo_sensitivity_analysis (finmodels_tools.py)    *)
(***************************************************************************)
\* Lines 371-375: only a missing sector multiple falls back.
SweepSectorPe(sector_pe, pe_ratio) ==
    IF ~sector_pe.present
    THEN (IF Truthy(pe_ratio) THEN pe_ratio.val ELSE 15)
    ELSE sector_pe.val

\* Line 378.
SweepEvRevenue(revenue, sector_pe) ==
    IF revenue # 0 THEN FromInt(revenue * sector_pe) ELSE Zero

NoIpoColumns ==
    [target_float |-> <<>>, price_range_buffer |-> <<>>, equity_value |-> <<>>,
     price_low |-> <<>>, price_base |-> <<>>, price_high |-> <<>>,
     float_shares |-> <<>>]

TargetFloats(n) == [x \in 1..n |-> Rat(10 + 5 * x, 100)]
PriceRangeBuffers(n) == [x \in 1..n |-> Rat(5 + 5 * x, 100)]

IpoSweepInit ==
    /\ ipoSweep \in
         [pc : {"call"}, data : IpoData,
          target_floats : {TargetFloats(n) : n \in 1..MaxRange},
          price_range_buffers : {PriceRangeBuffers(n) : n \in 1..MaxRange},
          i : {1}, j : {1}, enterprise_value : {Zero},
          results : {NoIpoColumns}, result : {Idle}]
    /\ dcf = Idle /\ lbo = Idle /\ lboSweep = Idle /\ ipo = Idle /\ rec = Idle
    /\ analysis = Idle /\ run = Idle

\* Lines 351-401: the enterprise value shared by all cells, and the empty
\* columns.
IpoSweepStart ==
    /\ ipoSweep.pc = "call"
    /\ LET revenue == OrZero(ipoSweep.data.ev_to_sales)
           ebitda == OrZero(ipoSweep.data.ev_to_ebitda)
           sector_pe == SweepSectorPe(ipoSweep.data.sector_pe, ipoSweep.data.pe_ratio)
           enterprise_value ==
               BlendedEnterpriseValue(SweepEvRevenue(revenue, sector_pe), EvEbitda(ebitda),
                                      ipoSweep.data.revenue_growth)
       IN  IF HasRaised(enterprise_value)
           THEN ipoSweep' = [ipoSweep EXCEPT !.pc = "done", !.result = EmptyDict]
           ELSE ipoSweep' = [ipoSweep EXCEPT !.pc = "cell",
                                             !.enterprise_value = enterprise_value.value,
                                             !.results = NoIpoColumns,
                                             !.i = 1, !.j = 1]
    /\ UNCHANGED <<dcf, lbo, lboSweep, ipo, rec, analysis, run>>

\* Lines 404-432: one cell; an exception in it returns {} for the sweep, the
\* last cell returns the columns.
IpoSweepCell ==
    /\ ipoSweep.pc = "cell"
    /\ LET target_float == ipoSweep.target_floats[ipoSweep.i]
           buffer == ipoSweep.price_range_buffers[ipoSweep.j]
           o == Offering(ipoSweep.enterprise_value, ipoSweep.data.debt_to_equity,
                         ipoSweep.data.market_cap, target_float, buffer)
           r == ipoSweep.results
           results ==
               [target_float |-> Append(r.target_float, target_float),
                price_range_buffer |-> Append(r.price_range_buffer, buffer),
                equity_value |-> Append(r.equity_value, o.equity_value),
                price_low |-> Append(r.price_low, o.price_low),
                price_base |-> Append(r.price_base, o.base_price),
                price_high |-> Append(r.price_high, o.price_high),
                float_shares |-> Append(r.float_shares, o.float_shares)]
           last_j == ipoSweep.j = Len(ipoSweep.price_range_buffers)
           last_i == ipoSweep.i = Len(ipoSweep.target_floats)
       IN  IF HasRaised(o)
           THEN ipoSweep' = [ipoSweep EXCEPT !.pc = "done", !.result = EmptyDict]
           ELSE IF last_i /\ last_j
           THEN ipoSweep' = [ipoSweep EXCEPT !.pc = "done", !.results = results,
                                             !.result = results]
           ELSE ipoSweep' = [ipoSweep EXCEPT
                               !.results = results,
                               !.i = IF last_j THEN ipoSweep.i + 1 ELSE ipoSweep.i,
                               !.j = IF last_j THEN 1 ELSE ipoSweep.j + 1]
    /\ UNCHANGED <<dcf, lbo, lboSweep, ipo, rec, analysis, run>>

IpoInit == IpoSingleInit \/ IpoSweepInit

IpoNext == CalculateIpoValuation \/ IpoSweepStart \/ IpoSweepCell

IpoSpec == IpoInit /\ [][IpoNext]_vars

IpoReturned == ipo.pc = "done" /\ ~IsEmpty(ipo.result)

NoValuationBasis(data) == OrZero(data.ev_to_sales) = 0 /\ OrZero(data.ev_to_ebitda) = 0

\* C15: when neither multiple value is computable the IPO valuation and the
\* IPO sweep fail; neither returns a result built on an enterprise value of 0.
C15_NoBasisFails ==
    /\ (ipo.pc = "done" /\ NoValuationBasis(ipo.data)) => IsEmpty(ipo.result)
    /\ (ipoSweep.pc = "done" /\ NoValuationBasis(ipoSweep.data)) =>
           IsEmpty(ipoSweep.result)

\* The valuation reaches the price computation with a share count of 0: the
\* data is complete and the equity value is 0.
ZeroShares(data) ==
    LET revenue == OrZero(data.ev_to_sales)
        enterprise_value ==
            BlendedEnterpriseValue(EvRevenue(revenue, SectorPe(data.sector_pe, data.pe_ratio)),
                                   EvEbitda(OrZero(data.ev_to_ebitda)), data.revenue_growth)
    IN  /\ ~HasRaised(enterprise_value)
        /\ data.debt_to_equity.present
        /\ data.market_cap.present /\ data.market_cap.val # 0
        /\ RIsZero(RSub(enterprise_value.value, FromInt(data.debt_to_equity.val)))

\* C16: the outcome of a valuation with 0 shares outstanding differs from
\* the outcome of the same valuation with missing data (no market cap), so
\* that the caller can tell the division by zero from a data failure.
C16_ZeroSharesDistinguished ==
    (ipo.pc = "done" /\ ZeroShares(ipo.data)) =>
        ipo.result # calculate_ipo_valuation([ipo.data EXCEPT !.market_cap = None],
                                             ipo.target_float, ipo.price_range_buffer)

\* C17: the sector P/E of a returned valuation is the sector multiple when
\* available, else the company's trailing P/E when available, else 15, and
\* the result records in sector_pe_is_default whether the default was used.
C17_SectorPeFallbackRecorded ==
    IpoReturned =>
        LET c == ipo.result.comparables
        IN  /\ c.sector_pe =
                   (IF Truthy(ipo.data.sector_pe) THEN ipo.data.sector_pe.val
                    ELSE IF Truthy(ipo.data.pe_ratio) THEN ipo.data.pe_ratio.val
                    ELSE 15)
            /\ "sector_pe_is_default" \in DOMAIN c
            /\ c.sector_pe_is_default =
                   (~Truthy(ipo.data.sector_pe) /\ ~Truthy(ipo.data.pe_ratio))

\* The claimed blend of the two multiple values, at least one computable.
BlendIsWeighted(enterprise_value, ev_revenue, ev_ebitda, revenue_growth) ==
    /\ (~RIsZero(ev_revenue) /\ ~RIsZero(ev_ebitda)) =>
           /\ revenue_growth.present
           /\ RLt(Rat(3, 10), revenue_growth.val) =>
                  enterprise_value = RAdd(RMul(Rat(7, 10), ev_revenue),
                                          RMul(Rat(3, 10), ev_ebitda))
           /\ RLe(revenue_growth.val, Rat(3, 10)) =>
                  enterprise_value = RAdd(RMul(Rat(3, 10), ev_revenue),
                                          RMul(Rat(7, 10), ev_ebitda))
    /\ (~RIsZero(ev_revenue) /\ RIsZero(ev_ebitda)) => enterprise_value = ev_revenue
    /\ (RIsZero(ev_revenue) /\ ~RIsZero(ev_ebitda)) => enterprise_value = ev_ebitda

\* C23: the enterprise value of a returned IPO valuation, and the one the
\* IPO sweep computes for its cells, is 0.7 * ev_revenue + 0.3 * ev_ebitda
\* for a revenue growth above 0.3, 0.3 * ev_revenue + 0.7 * ev_ebitda for a
\* growth of at most 0.3 (0.3 itself included), both values being
\* computable, and the computable value when only one is.
C23_BlendWeights ==
    /\ IpoReturned =>
           BlendIsWeighted(ipo.result.valuation.enterprise_value,
                           EvRevenue(OrZero(ipo.data.ev_to_sales),
                                     SectorPe(ipo.data.sector_pe, ipo.data.pe_ratio)),
                           EvEbitda(OrZero(ipo.data.ev_to_ebitda)),
                           ipo.data.revenue_growth)
    /\ ipoSweep.pc = "cell" =>
           BlendIsWeighted(ipoSweep.enterprise_value,
                           SweepEvRevenue(OrZero(ipoSweep.data.ev_to_sales),
                                          SweepSectorPe(ipoSweep.data.sector_pe,
                                                        ipoSweep.data.pe_ratio)),
                           EvEbitda(OrZero(ipoSweep.data.ev_to_ebitda)),
                           ipoSweep.data.revenue_growth)

\* A valuation at a revenue growth of exactly 0.3 with both values
\* computable: 0.3 * (4 * 25) + 0.7 * (12 * 10) = 114.
C23_Witness ==
    /\ IpoReturned
    /\ ipo.data.revenue_growth = [present |-> TRUE, val |-> Rat(3, 10)]
    /\ ipo.data.ev_to_sales = Some(4) /\ ipo.data.sector_pe = Some(25)
    /\ ipo.data.ev_to_ebitda = Some(12)
    /\ ipo.result.valuation.enterprise_value = FromInt(114)

(***************************************************************************)
(* generate_final_recommendation and select_best_target                    *)
(* (agents/valuation_agent.py; alt_agents/agent4.py holds the same code).  *)
(* A symbol is the rank of a ticker in lexical order.                      *)
(***************************************************************************)
\* Lines 532-565: the metrics of outputs/json/<symbol>_fmp.json, or the
\* error record when the file cannot be read.
get_financial_metrics(file) ==
    IF ~file.exists THEN ErrorResult("No such file or directory")
    ELSE [yearly_metrics |-> <<[fcf |-> Some(file.fcf), ebitda |-> Some(file.ebitda)]>>,
          latest |-> [ebitda_margin |-> file.ebitda_margin,
                      revenue_growth |-> file.revenue_growth]]

\* Lines 568-584: the first balance sheet, or the error record when the
\* file or the balance sheet is missing.
get_balance_sheet_metrics(file) ==
    IF ~file.exists THEN ErrorResult("No such file or directory")
    ELSE IF ~file.has_balance_sheet THEN ErrorResult("list index out of range")
    ELSE [total_debt |-> file.total_debt, total_assets |-> file.total_assets]

\* Lines 587-602.
get_market_data(file) ==
    IF ~file.exists THEN ErrorResult("No such file or directory")
    ELSE [market_cap |-> file.market_cap]

\* The financials argument that line 627 passes to calculate_dcf.
AsFinancials(metrics) ==
    IF IsError(metrics)
    THEN [given |-> TRUE, has_yearly_metrics |-> FALSE, yearly_metrics |-> <<>>]
    ELSE [given |-> TRUE, has_yearly_metrics |-> TRUE,
          yearly_metrics |-> metrics.yearly_metrics]

\* Lines 622-628: one entry of companies_data, kept in insertion order.  The
\* dcf entry is calculate_dcf at its default rates 0.12 and 0.03, which
\* fails only on the data; of its values the report's control flow reads
\* none, and the entry keeps the base cash flow alone.
CompanyData(symbol, file) ==
    LET financials == AsFinancials(get_financial_metrics(file))
    IN  [symbol |-> symbol,
         metrics |-> get_financial_metrics(file),
         market |-> get_market_data(file),
         balance |-> get_balance_sheet_metrics(file),
         dcf |-> IF DcfDataError(financials) # ""
                 THEN ErrorResult(DcfDataError(financials))
                 ELSE [historical_average_fcf |->
                          RDiv(RSum(FcfData(financials.yearly_metrics)),
                               FromInt(Len(FcfData(financials.yearly_metrics))))]]

\* balance.get("total_debt", 0) and balance.get("total_assets", 1)
TotalDebt(balance) == IF IsError(balance) THEN 0 ELSE balance.total_debt
TotalAssets(balance) == IF IsError(balance) THEN 1 ELSE balance.total_assets

\* Lines 729-738; the caller models the ZeroDivisionError of total_assets = 0.
Score(data) ==
    RAdd(RAdd(RMul(data.metrics.latest.ebitda_margin, Rat(2, 5)),
              RMul(data.metrics.latest.revenue_growth, Rat(2, 5))),
         RMul(RSub(One, Rat(TotalDebt(data.balance), TotalAssets(data.balance))),
              Rat(1, 5)))

RECURSIVE SelectLoopBroken(_, _, _)
SelectLoopBroken(companies_data, i, best) ==
    IF i > Len(companies_data) THEN best
    ELSE LET data == companies_data[i]
         IN  IF IsError(data.metrics) \/ TotalAssets(data.balance) = 0 THEN Raised
             ELSE IF ~best.present \/ RLe(best.score, Score(data))
             THEN SelectLoopBroken(companies_data, i + 1,
                                   [present |-> TRUE, score |-> Score(data),
                                    target |-> data.symbol])
             ELSE SelectLoopBroken(companies_data, i + 1, best)

\* Lines 727-742 from entry i on: best is None while best_score is -inf.
RECURSIVE SelectLoop(_, _, _)
SelectLoop(companies_data, i, best) ==
    IF i > Len(companies_data) THEN best
    ELSE LET data == companies_data[i]
         IN  IF IsError(data.metrics) \/ TotalAssets(data.balance) = 0 THEN Raised
             ELSE IF ~best.present \/ RLt(best.score, Score(data))
             THEN SelectLoop(companies_data, i + 1,
                             [present |-> TRUE, score |-> Score(data),
                              target |-> data.symbol])
             ELSE SelectLoop(companies_data, i + 1, best)

\* Lines 722-744: Raised, or best_target with its score (present = FALSE for
\* None).
select_best_target(companies_data) ==
    SelectLoop(companies_data, 1, [present |-> FALSE, score |-> Zero, target |-> 0])

\* Lines 709-719; the caller models the ZeroDivisionError of total_assets = 0.
assess_risk_profile(data) ==
    LET debt_ratio == Rat(TotalDebt(data.balance), TotalAssets(data.balance))
        margin == IF IsError(data.metrics) THEN Zero
                  ELSE data.metrics.latest.ebitda_margin
    IN  IF RLt(Rat(3, 5), debt_ratio) \/ RLt(margin, Zero) THEN "High Risk"
        ELSE IF RLt(Rat(2, 5), debt_ratio) THEN "Moderate Risk"
        ELSE "Low Risk"

\* Bounds and input sets of the recommendation specification.
MaxCompanies == 2

Symbols == 1..MaxCompanies

MissingFile ==
    [exists |-> FALSE, has_balance_sheet |-> FALSE, fcf |-> 0, ebitda |-> 0,
     ebitda_margin |-> Zero, revenue_growth |-> Zero, market_cap |-> 0,
     total_debt |-> 0, total_assets |-> 0]

CompanyFile(has_balance_sheet, ebitda, margin, growth, total_debt, total_assets) ==
    [exists |-> TRUE, has_balance_sheet |-> has_balance_sheet, fcf |-> 14,
     ebitda |-> ebitda, ebitda_margin |-> margin, revenue_growth |-> growth,
     market_cap |-> 500, total_debt |-> total_debt, total_assets |-> total_assets]

CompanyFiles ==
    {MissingFile,
     CompanyFile(TRUE, 20, Rat(1, 5), Rat(1, 10), 50, 100),
     CompanyFile(TRUE, 20, Rat(1, 10), Rat(1, 5), 50, 100),
     CompanyFile(TRUE, 20, Rat(3, 10), Rat(1, 10), 70, 100),
     CompanyFile(TRUE, 20, Rat(1, 5), Rat(1, 10), 50, 0),
     CompanyFile(TRUE, 0, Rat(1, 5), Rat(1, 10), 50, 100),
     CompanyFile(FALSE, 20, Rat(1, 5), Rat(1, 10), 0, 0)}

\* analyzed_companies: the symbols in any order, none twice.
SymbolLists ==
    {s \in UNION {[1..n -> Symbols] : n \in 0..MaxCompanies} :
        \A a, b \in 1..Len(s) : a # b => s[a] # s[b]}

RecInit ==
    /\ rec \in [pc : {"call"}, files : [Symbols -> CompanyFiles],
                analyzed_companies : SymbolLists,
                companies_data : {<<>>}, i : {1}, table : {<<>>}, assessed : {<<>>},
                result : {Idle}]
    /\ dcf = Idle /\ lbo = Idle /\ lboSweep = Idle /\ ipo = Idle /\ ipoSweep = Idle
    /\ analysis = Idle /\ run = Idle

RecFailed == ErrorResult("Error generating final recommendation")

\* Lines 619-628: companies_data for every analysed symbol.
RecCollect ==
    /\ rec.pc = "call"
    /\ rec' = [rec EXCEPT
                 !.pc = "table", !.i = 1,
                 !.companies_data =
                     [n \in 1..Len(rec.analyzed_companies) |->
                         CompanyData(rec.analyzed_companies[n],
                                     rec.files[rec.analyzed_companies[n]])]]
    /\ UNCHANGED <<dcf, lbo, lboSweep, ipo, ipoSweep, analysis, run>>

\* Lines 634-652: one row of the comparison table.  An error record in
\* place of the metrics raises KeyError('yearly_metrics'), an EBITDA of 0
\* raises ZeroDivisionError at line 651; line 685 turns either into the
\* error text for the whole report.
RecTableRow ==
    /\ rec.pc = "table"
    /\ rec.i <= Len(rec.companies_data)
    /\ LET data == rec.companies_data[rec.i]
       IN  IF IsError(data.metrics) \/ data.metrics.yearly_metrics[1].ebitda.val = 0
           THEN rec' = [rec EXCEPT !.pc = "done", !.result = RecFailed]
           ELSE rec' = [rec EXCEPT !.i = rec.i + 1,
                                   !.table = Append(rec.table, data.symbol)]
    /\ UNCHANGED <<dcf, lbo, lboSweep, ipo, ipoSweep, analysis, run>>

\* Lines 654-664: the valuation section, which reads the DCF results with
\* defaults and cannot fail.
RecValuation ==
    /\ rec.pc = "table"
    /\ rec.i > Len(rec.companies_data)
    /\ rec' = [rec EXCEPT !.pc = "assess", !.i = 1]
    /\ UNCHANGED <<dcf, lbo, lboSweep, ipo, ipoSweep, analysis, run>>

\* Lines 667-676: the strategic assessment of one company;
\* assess_risk_profile raises ZeroDivisionError when total_assets is 0.
RecAssess ==
    /\ rec.pc = "assess"
    /\ rec.i <= Len(rec.companies_data)
    /\ LET data == rec.companies_data[rec.i]
       IN  IF TotalAssets(data.balance) = 0
           THEN rec' = [rec EXCEPT !.pc = "done", !.result = RecFailed]
           ELSE rec' = [rec EXCEPT !.i = rec.i + 1,
                                   !.assessed = Append(rec.assessed,
                                                       assess_risk_profile(data))]
    /\ UNCHANGED <<dcf, lbo, lboSweep, ipo, ipoSweep, analysis, run>>

\* Lines 678-686: the final recommendation.  companies_data[None] raises
\* KeyError when no target was selected.
RecSelect ==
    /\ rec.pc = "assess"
    /\ rec.i > Len(rec.companies_data)
    /\ LET best == select_best_target(rec.companies_data)
       IN  IF HasRaised(best) \/ ~best.present
           THEN rec' = [rec EXCEPT !.pc = "done", !.result = RecFailed]
           ELSE rec' = [rec EXCEPT !.pc = "done",
                                   !.result = [best_target |-> best.target,
                                               best_score |-> best.score,
                                               table |-> rec.table,
                                               assessed |-> rec.assessed]]
    /\ UNCHANGED <<dcf, lbo, lboSweep, ipo, ipoSweep, analysis, run>>

RecNext == RecCollect \/ RecTableRow \/ RecValuation \/ RecAssess \/ RecSelect

RecSpec == RecInit /\ [][RecNext]_vars

RecReturned == rec.pc = "done" /\ ~IsError(rec.result)

\* A company whose data and calculations all succeed.
Healthy(file) ==
    /\ file.exists /\ file.has_balance_sheet
    /\ file.ebitda # 0 /\ file.total_assets # 0

\* C7: among candidates tied for the top score the recommended target is
\* the one with the lexically smallest symbol, whatever the order in which
\* the candidates were supplied.
C7_TieBreakBySymbol ==
    RecReturned =>
        \A n \in 1..Len(rec.companies_data) :
            Score(rec.companies_data[n]) = rec.result.best_score =>
                rec.result.best_target <= rec.companies_data[n].symbol

\* C9: a data or calculation failure of one company (missing file, error
\* record, total_assets = 0) does not keep the comparison and the
\* recommendation of the other companies from being produced.
C9_FailureIsPerCompany ==
    (rec.pc = "done"
        /\ \E n \in 1..Len(rec.analyzed_companies) :
               Healthy(rec.files[rec.analyzed_companies[n]])) =>
        /\ ~IsError(rec.result)
        /\ Healthy(rec.files[rec.result.best_target])

(***************************************************************************)
(* select_best_target applied to a candidate set of its own.               *)
(***************************************************************************)
SelectInit ==
    /\ rec \in {[pc |-> "select",
                  companies_data |-> [n \in 1..Len(symbols) |->
                                         CompanyData(symbols[n], files[symbols[n]])],
                  result |-> Idle] :
                    symbols \in SymbolLists, files \in [Symbols -> CompanyFiles]}
    /\ dcf = Idle /\ lbo = Idle /\ lboSweep = Idle /\ ipo = Idle /\ ipoSweep = Idle
    /\ analysis = Idle /\ run = Idle

SelectBestTarget ==
    /\ rec.pc = "select"
    /\ rec' = [rec EXCEPT !.pc = "selected",
                          !.result = select_best_target(rec.companies_data)]
    /\ UNCHANGED <<dcf, lbo, lboSweep, ipo, ipoSweep, analysis, run>>

SelectNext == SelectBestTarget

SelectSpec == SelectInit /\ [][SelectNext]_vars

\* C26: when select_best_target returns, it returns None exactly for an
\* empty candidate set, and otherwise the candidate iterated first among
\* those whose score is greater than or equal to every candidate's score.
C26_FirstMaximum ==
    (rec.pc = "selected" /\ ~HasRaised(rec.result)) =>
        /\ rec.result.present <=> rec.companies_data # <<>>
        /\ rec.result.present =>
               \E n \in 1..Len(rec.companies_data) :
                   /\ rec.companies_data[n].symbol = rec.result.target
                   /\ Score(rec.companies_data[n]) = rec.result.score
                   /\ \A m \in 1..Len(rec.companies_data) :
                          /\ RLe(Score(rec.companies_data[m]), rec.result.score)
                          /\ Score(rec.companies_data[m]) = rec.result.score => n <= m

\* Two candidates with equal scores, supplied in reverse lexical order: the
\* first supplied is returned.
C26_Witness ==
    /\ rec.pc = "selected" /\ ~HasRaised(rec.result)
    /\ Len(rec.companies_data) = 2
    /\ Score(rec.companies_data[1]) = Score(rec.companies_data[2])
    /\ rec.companies_data[1].symbol > rec.companies_data[2].symbol
    /\ rec.result.target = rec.companies_data[1].symbol

\* C18: the recommendation carries a ranked list that holds every candidate
\* exactly once, in non-increasing order of the score 0.4 * ebitda_margin +
\* 0.4 * revenue_growth + 0.2 * (1 - total_debt / total_assets), not only
\* the single best target.
C18_RankedList ==
    RecReturned =>
        /\ "ranking" \in DOMAIN rec.result
        /\ Len(rec.result.ranking) = Len(rec.companies_data)
        /\ \A n \in 1..Len(rec.companies_data) :
               \E m \in 1..Len(rec.result.ranking) :
                   rec.result.ranking[m].symbol = rec.companies_data[n].symbol
                       /\ rec.result.ranking[m].score = Score(rec.companies_data[n])
        /\ \A m \in 1..(Len(rec.result.ranking) - 1) :
               RLe(rec.result.ranking[m + 1].score, rec.result.ranking[m].score)

\* The number of parameter combinations of the LBO sweep.
Combinations(sw) ==
    Len(sw.p.fcf_growth_rates) * Len(sw.p.exit_multiples) * Len(sw.p.interest_rates)

\* A returned grid with one cell per combination: every column as long as
\* the product of the ranges, no parameter tuple in two cells.
GridComplete(sw) ==
    /\ ~IsEmpty(sw.result)
    /\ \A c \in DOMAIN sw.result : Len(sw.result[c]) = Combinations(sw)
    /\ \A a, b \in 1..Len(sw.result.irr) :
           (/\ sw.result.fcf_growth_rate[a] = sw.result.fcf_growth_rate[b]
            /\ sw.result.exit_multiple[a] = sw.result.exit_multiple[b]
            /\ sw.result.interest_rate[a] = sw.result.interest_rate[b]) => a = b

\* C6: a sensitivity sweep over company data that was fetched returns
\* exactly one cell per combination of the supplied ranges: every column has
\* the product of the ranges' sizes as its length and no parameter tuple
\* appears twice.
C6_OneCellPerCombination ==
    (lboSweep.pc = "done" /\ lboSweep.data.ev.present) => GridComplete(lboSweep)

\* C8: a combination whose evaluation fails does not make the sweep return
\* an empty or failed result: the cells evaluated before it are reported.
C8_FailureIsPerCell ==
    (lboSweep.pc = "done" /\ lboSweep.data.ev.present) =>
        /\ ~IsEmpty(lboSweep.result)
        /\ \A n \in 1..Len(lboSweep.results.moic) :
               lboSweep.result.moic[n] = lboSweep.results.moic[n]
\* Lines 51-59 of calculate_lbo_metrics as a function of its inputs: the
\* balance and the yearly cash flows after the given number of years.
RECURSIVE LboProjection(_, _, _, _, _, _)
LboProjection(fcf, fcf_growth_rate, interest_rate, debt_repayment_pct, debt, years) ==
    IF years = 0 THEN [remaining_debt |-> debt, projected_fcf |-> <<>>]
    ELSE LET before == LboProjection(fcf, fcf_growth_rate, interest_rate,
                                     debt_repayment_pct, debt, years - 1)
             fcf_growth == FcfGrowth(fcf, fcf_growth_rate, years - 1)
             debt_repayment ==
                 DebtRepayment(fcf_growth, debt_repayment_pct, before.remaining_debt)
             remaining_debt == RSub(before.remaining_debt, debt_repayment)
             interest_expense == RMul(remaining_debt, interest_rate)
         IN  [remaining_debt |-> remaining_debt,
              projected_fcf |->
                  Append(before.projected_fcf,
                         RSub(RSub(fcf_growth, interest_expense), debt_repayment))]

\* Lines 48-90 of calculate_lbo_metrics as a function: the cash-flow stream,
\* the value npf.irr gives for it and the MOIC.
LboReturns(data, p) ==
    LET ev == FromInt(data.ev.val)
        debt == DebtFinancing(ev, p.debt_ratio)
        equity == EquityContribution(ev, debt)
        projection == LboProjection(FromInt(data.fcf), p.fcf_growth_rate, p.interest_rate,
                                    p.debt_repayment_pct, debt, p.holding_period)
        exit_equity ==
            RSub(ExitValue(FromInt(data.ebitda), p.exit_ebitda_growth, p.holding_period,
                           p.exit_multiple),
                 projection.remaining_debt)
        cash_flows == <<RNeg(equity)>> \o projection.projected_fcf \o <<exit_equity>>
    IN  [projected_fcf |-> projection.projected_fcf,
         irr |-> Irr(cash_flows),
         moic |-> Moic(exit_equity, equity)]

\* The arguments of calculate_lbo_metrics that match cell (i, j, k) of a sweep.
CellParams(sw, i, j, k) ==
    [holding_period |-> sw.p.holding_period,
     debt_ratio |-> sw.p.debt_ratio,
     interest_rate |-> sw.p.interest_rates[k],
     fcf_growth_rate |-> sw.p.fcf_growth_rates[i],
     debt_repayment_pct |-> sw.p.debt_repayment_pct,
     exit_multiple |-> sw.p.exit_multiples[j],
     exit_ebitda_growth |-> sw.p.exit_ebitda_growth]

\* The position (i, j, k) of the n-th cell of the LBO sweep.
CellIndex(sw, n) ==
    LET e == Len(sw.p.exit_multiples)
        r == Len(sw.p.interest_rates)
    IN  [i |-> ((n - 1) \div (e * r)) + 1,
         j |-> (((n - 1) % (e * r)) \div r) + 1,
         k |-> ((n - 1) % r) + 1]

\* C24: every cell of the LBO sweep has the yearly cash-flow stream, the
\* IRR and the MOIC that calculate_lbo_metrics returns for the same company
\* data and the cell's parameters, whatever the company's cash balance.
C24_SweepRerunsModel ==
    /\ (lboSweep.pc = "years" /\ lboSweep.year = lboSweep.p.holding_period) =>
           lboSweep.projected_fcf =
               LboReturns(lboSweep.data,
                          CellParams(lboSweep, lboSweep.i, lboSweep.j, lboSweep.k)).projected_fcf
    /\ lboSweep.pc \in {"cell", "years", "done"} =>
           \A n \in 1..Len(lboSweep.results.irr) :
               LET c == CellIndex(lboSweep, n)
                   single == LboReturns(lboSweep.data, CellParams(lboSweep, c.i, c.j, c.k))
               IN  /\ lboSweep.results.irr[n] = single.irr
                   /\ [value |-> lboSweep.results.moic[n]] = single.moic

(***************************************************************************)
(* The two sensitivity sweeps taken together.                              *)
(***************************************************************************)
SweepInit == LboSweepInit \/ IpoSweepInit

SweepNext ==
    \/ SweepStart \/ SweepCellBegin \/ SweepYear \/ SweepCellEnd
    \/ IpoSweepStart \/ IpoSweepCell

SweepSpec == SweepInit /\ [][SweepNext]_vars

\* Cell n of the LBO columns holds the parameters at the 0-based position
\* n - 1 = i * |exit_multiples| * |interest_rates| + j * |interest_rates| + k.
LboCellInOrder(p, columns, n) ==
    LET e == Len(p.exit_multiples)
        r == Len(p.interest_rates)
        i == (n - 1) \div (e * r)
        j == ((n - 1) % (e * r)) \div r
        k == (n - 1) % r
    IN  /\ columns.fcf_growth_rate[n] = p.fcf_growth_rates[i + 1]
        /\ columns.exit_multiple[n] = p.exit_multiples[j + 1]
        /\ columns.interest_rate[n] = p.interest_rates[k + 1]

\* Cell n of the IPO columns holds the parameters at the 0-based position
\* n - 1 = i * |price_range_buffers| + j.
IpoCellInOrder(sw, columns, n) ==
    LET b == Len(sw.price_range_buffers)
    IN  /\ columns.target_float[n] = sw.target_floats[((n - 1) \div b) + 1]
        /\ columns.price_range_buffer[n] = sw.price_range_buffers[((n - 1) % b) + 1]

\* C19: the cells of a sweep appear in the iteration order of the ranges,
\* the last range innermost, while the sweep runs and in the returned grid:
\* LBO cell i*|exit_multiples|*|interest_rates| + j*|interest_rates| + k
\* holds (fcf_growth_rates[i], exit_multiples[j], interest_rates[k]), IPO
\* cell i*|price_range_buffers| + j holds (target_floats[i],
\* price_range_buffers[j]).
C19_CellsInIterationOrder ==
    /\ lboSweep.pc \in {"cell", "years", "done"} =>
           \A n \in 1..Len(lboSweep.results.irr) :
               LboCellInOrder(lboSweep.p, lboSweep.results, n)
    /\ SweepReturned =>
           /\ \A c \in DOMAIN lboSweep.result :
                  Len(lboSweep.result[c]) = Combinations(lboSweep)
           /\ \A n \in 1..Len(lboSweep.result.irr) :
                  LboCellInOrder(lboSweep.p, lboSweep.result, n)
    /\ ipoSweep.pc \in {"cell", "done"} =>
           \A n \in 1..Len(ipoSweep.results.price_base) :
               IpoCellInOrder(ipoSweep, ipoSweep.results, n)
    /\ (ipoSweep.pc = "done" /\ ~IsEmpty(ipoSweep.result)) =>
           /\ \A c \in DOMAIN ipoSweep.result :
                  Len(ipoSweep.result[c]) =
                      Len(ipoSweep.target_floats) * Len(ipoSweep.price_range_buffers)
           /\ \A n \in 1..Len(ipoSweep.result.price_base) :
                  IpoCellInOrder(ipoSweep, ipoSweep.result, n)

\* A returned LBO grid over three ranges of two values each: the second
\* cell differs from the first in the interest rate alone.
C19_Witness ==
    /\ SweepReturned
    /\ Len(lboSweep.p.fcf_growth_rates) = 2
    /\ Len(lboSweep.p.exit_multiples) = 2
    /\ Len(lboSweep.p.interest_rates) = 2
    /\ Len(lboSweep.result.irr) = 8
    /\ lboSweep.result.interest_rate[2] # lboSweep.result.interest_rate[1]
    /\ lboSweep.result.exit_multiple[2] = lboSweep.result.exit_multiple[1]
    /\ lboSweep.result.exit_multiple[3] # lboSweep.result.exit_multiple[1]
    /\ lboSweep.result.fcf_growth_rate[5] # lboSweep.result.fcf_growth_rate[4]

\* Lines 278-303 of the LBO sweep as a function of one cell's parameters:
\* the balance and the yearly cash flows after the given number of years.
RECURSIVE SweepProjection(_, _, _, _, _, _, _)
SweepProjection(fcf, cash, growth_rate, rate, debt_repayment_pct, debt, years) ==
    IF years = 0 THEN [remaining_debt |-> debt, projected_fcf |-> <<>>]
    ELSE LET before == SweepProjection(fcf, cash, growth_rate, rate,
                                       debt_repayment_pct, debt, years - 1)
             fcf_growth == FcfGrowth(fcf, growth_rate, years - 1)
             debt_repayment ==
                 DebtRepayment(fcf_growth, debt_repayment_pct, before.remaining_debt)
             remaining_debt == RSub(before.remaining_debt, debt_repayment)
             interest_expense == RMul(remaining_debt, rate)
         IN  [remaining_debt |-> remaining_debt,
              projected_fcf |->
                  Append(before.projected_fcf,
                         RMax(RSub(RSub(fcf_growth, interest_expense), debt_repayment),
                              RNeg(cash)))]

\* Lines 271-320 as a function: the irr and moic of the cell (i, j, k),
\* computed from the company data and the cell's parameters alone (the
\* equity is not 0).
SweepCell(sw, i, j, k) ==
    LET ev == FromInt(sw.data.ev.val)
        debt == DebtFinancing(ev, sw.p.debt_ratio)
        equity == EquityContribution(ev, debt)
        projection == SweepProjection(FromInt(sw.data.fcf), FromInt(sw.data.cash),
                                      sw.p.fcf_growth_rates[i], sw.p.interest_rates[k],
                                      sw.p.debt_repayment_pct, debt, sw.p.holding_period)
        exit_equity ==
            RSub(ExitValue(FromInt(sw.data.ebitda), sw.p.exit_ebitda_growth,
                           sw.p.holding_period, sw.p.exit_multiples[j]),
                 projection.remaining_debt)
    IN  [irr |-> Irr(<<RNeg(equity)>> \o projection.projected_fcf \o <<exit_equity>>),
         moic |-> RDiv(exit_equity, equity)]

\* C27: the values stored for a sweep cell are those computed from the
\* cell's parameter tuple and the company data alone: no balance, cash-flow
\* list or other state of the cells evaluated before it enters them.
C27_CellsIndependent ==
    /\ lboSweep.pc \in {"cell", "years", "done"} =>
           \A n \in 1..Len(lboSweep.results.irr) :
               LET c == CellIndex(lboSweep, n)
               IN  /\ lboSweep.results.irr[n] = SweepCell(lboSweep, c.i, c.j, c.k).irr
                   /\ lboSweep.results.moic[n] = SweepCell(lboSweep, c.i, c.j, c.k).moic
    /\ ipoSweep.pc \in {"cell", "done"} =>
           \A n \in 1..Len(ipoSweep.results.price_base) :
               LET d == ipoSweep.data
                   b == Len(ipoSweep.price_range_buffers)
                   o == Offering(BlendedEnterpriseValue(
                                     SweepEvRevenue(OrZero(d.ev_to_sales),
                                                    SweepSectorPe(d.sector_pe, d.pe_ratio)),
                                     EvEbitda(OrZero(d.ev_to_ebitda)),
                                     d.revenue_growth).value,
                                 d.debt_to_equity, d.market_cap,
                                 ipoSweep.target_floats[((n - 1) \div b) + 1],
                                 ipoSweep.price_range_buffers[((n - 1) % b) + 1])
                   r == ipoSweep.results
               IN  /\ r.equity_value[n] = o.equity_value
                   /\ r.price_low[n] = o.price_low
                   /\ r.price_base[n] = o.base_price
                   /\ r.price_high[n] = o.price_high
                   /\ r.float_shares[n] = o.float_shares

\* A returned LBO grid of several cells in which debt was repaid during the
\* holding period, so that the last cell ended on a balance below its debt.
C27_Witness ==
    /\ SweepReturned
    /\ Len(lboSweep.result.irr) >= 4
    /\ lboSweep.p.holding_period >= 2
    /\ RLt(lboSweep.remaining_debt, lboSweep.debt)
    /\ lboSweep.result.moic[1] # lboSweep.result.moic[Len(lboSweep.result.moic)]

\* C28: for the same company data the single IPO valuation and the IPO
\* sweep derive the same equity value: whenever the single valuation returns
\* a result, the equity_value of every sweep cell equals its equity_value,
\* a sector multiple of 0 and a company P/E of 0 included.
C28_SweepMatchesSingleIpo ==
    ipoSweep.pc \in {"cell", "done"} =>
        LET single == calculate_ipo_valuation(ipoSweep.data, ipoSweep.target_floats[1],
                                              ipoSweep.price_range_buffers[1])
        IN  ~IsEmpty(single) =>
                \A n \in 1..Len(ipoSweep.results.equity_value) :
                    ipoSweep.results.equity_value[n] = single.valuation.equity_value

(***************************************************************************)
(* perform_valuation_analysis (tools.py): the valuation report of one      *)
(* symbol.  The inputs are the outcomes of the sub-calculations.           *)
(***************************************************************************)
\* The sections computed by the FinanceToolkit models, each in its own try
\* block (lines 120-124 and 147-199).
ToolkitSections ==
    {"ev", "wacc", "dupont", "ext_dupont", "cap", "all_perf", "alt_zscore",
     "intrinsic_value", "piotroski", "gorden"}

Sections ==
    ToolkitSections \cup {"dcf", "lbo", "ipo", "lbo_sensitivity", "ipo_sensitivity"}

\* What calculate_lbo_metrics hands back: {} (or an exception), or a result
\* whose irr and moic are numbers or the texts of lines 75, 87 and 90.
LboMetricsOutcomes ==
    {[empty |-> TRUE, irr_is_text |-> FALSE, moic_is_text |-> FALSE]}
        \cup [empty : {FALSE}, irr_is_text : BOOLEAN, moic_is_text : BOOLEAN]

\* What calculate_ipo_valuation hands back: {}, or a result whose
\* revenue_growth is a number or None.
IpoValuationOutcomes ==
    {[empty |-> TRUE, revenue_growth_present |-> FALSE]}
        \cup [empty : {FALSE}, revenue_growth_present : BOOLEAN]

AnalysisInit ==
    /\ analysis \in [pc : {"call"},
                     failed : SUBSET ToolkitSections,
                     profile_failed : BOOLEAN,
                     lbo_metrics : LboMetricsOutcomes,
                     ipo_valuation : IpoValuationOutcomes,
                     lbo_sensitivity_empty : BOOLEAN,
                     ipo_sensitivity_empty : BOOLEAN,
                     written : {FALSE},
                     report : {[s \in Sections |-> ""]},
                     result : {Idle}]
    /\ dcf = Idle /\ lbo = Idle /\ ipo = Idle /\ lboSweep = Idle /\ ipoSweep = Idle
    /\ rec = Idle /\ run = Idle

\* Lines 119-240: a section whose sub-calculation raised, or returned an
\* empty dictionary, holds the error marker.
HasMarker(a, s) ==
    IF s \in ToolkitSections THEN s \in a.failed
    ELSE IF s = "dcf" THEN a.profile_failed
    ELSE IF s = "lbo" THEN a.lbo_metrics.empty
    ELSE IF s = "ipo" THEN a.ipo_valuation.empty
    ELSE IF s = "lbo_sensitivity" THEN a.lbo_sensitivity_empty
    ELSE a.ipo_sensitivity_empty

\* Lines 243-289: building the report raises when the DCF section failed
\* (the text reads profile, first_col, dcf_value and dcf_difference without
\* looking at dcf_dict), when format_lbo_metrics formats a moic text with
\* .2f, and when format_ipo_valuation formats a revenue growth of None.
ReportRaises(a) ==
    \/ a.profile_failed
    \/ ~a.lbo_metrics.empty /\ a.lbo_metrics.moic_is_text
    \/ ~a.ipo_valuation.empty /\ ~a.ipo_valuation.revenue_growth_present

\* Lines 117-302.
PerformValuationAnalysis ==
    /\ analysis.pc = "call"
    /\ IF ReportRaises(analysis)
       THEN analysis' = [analysis EXCEPT !.pc = "done",
                                         !.result = [status |-> "error"]]
       ELSE analysis' =
                [analysis EXCEPT
                    !.pc = "done",
                    !.written = TRUE,
                    !.report = [s \in Sections |->
                                   IF HasMarker(analysis, s) THEN "marker" ELSE "content"],
                    !.result = [status |-> "success"]]
    /\ UNCHANGED <<dcf, lbo, ipo, lboSweep, ipoSweep, rec, run>>

AnalysisNext == PerformValuationAnalysis

AnalysisSpec == AnalysisInit /\ [][AnalysisNext]_vars

\* C25: whatever sub-calculations fail, the call returns status success and
\* the report is written, with the error marker in the sections that failed
\* and the content in all the others.
C25_FailureIsPerSection ==
    analysis.pc = "done" =>
        /\ analysis.result.status = "success"
        /\ analysis.written
        /\ \A s \in Sections :
               analysis.report[s] = IF HasMarker(analysis, s) THEN "marker" ELSE "content"

(***************************************************************************)
(* main (run.py): the four phases of the pipeline.  Each phase holds an    *)
(* agent conversation, which is outside the program: it leaves the output  *)
(* directory in any state, or raises.  The phase then reports success if   *)
(* the files it expects exist.                                             *)
(***************************************************************************)
Phases == <<"strategy", "research", "data_collection", "valuation">>

\* STRATEGY_REPORT_PATH, COMPANIES_JSON_PATH, CRITIC_COMPANIES_JSON_PATH, a
\* non-empty OUTPUT_DIR/fmp_data, OUTPUT_DIR/valuation.md.
OutputFiles ==
    {"strategy_report", "companies", "critic_companies", "fmp_data", "valuation_report"}

\* Lines 79, 171-173, 221-222 and 268-269: the files a phase looks for.
Expected(phase) ==
    CASE phase = "strategy" -> {"strategy_report"}
      [] phase = "research" -> {"companies", "critic_companies"}
      [] phase = "data_collection" -> {"fmp_data"}
      [] phase = "valuation" -> {"valuation_report"}

Line(msg, phase) == [msg |-> msg, phase |-> phase]

RunInit ==
    /\ run \in [pc : {"main"}, phase : {1}, files : SUBSET OutputFiles,
                printed : {<<>>}]
    /\ dcf = Idle /\ lbo = Idle /\ ipo = Idle /\ lboSweep = Idle /\ ipoSweep = Idle
    /\ rec = Idle /\ analysis = Idle

\* Lines 279-282: the banner, the output directory, the call of the first
\* phase.
RunMain ==
    /\ run.pc = "main"
    /\ run' = [run EXCEPT !.pc = "call", !.phase = 1,
                          !.printed = Append(run.printed, Line("process_started", ""))]
    /\ UNCHANGED <<dcf, lbo, ipo, lboSweep, ipoSweep, rec, analysis>>

\* Lines 47-72, 89-164, 183-214 and 232-261: a phase announces itself and
\* builds its agents.
StartPhase ==
    /\ run.pc = "call"
    /\ run' = [run EXCEPT !.pc = "chat",
                          !.printed = Append(run.printed,
                                             Line("starting", Phases[run.phase]))]
    /\ UNCHANGED <<dcf, lbo, ipo, lboSweep, ipoSweep, rec, analysis>>

\* Lines 74, 166, 216 and 263: initiate_chat.  The conversation and the tools
\* it calls write and overwrite files at paths the agents choose; an
\* exception of the conversation is caught nowhere and ends main.
Chat ==
    /\ run.pc = "chat"
    /\ \E files \in SUBSET OutputFiles, raises \in BOOLEAN :
         run' = [run EXCEPT !.pc = IF raises THEN "raised" ELSE "check",
                            !.files = files]
    /\ UNCHANGED <<dcf, lbo, ipo, lboSweep, ipoSweep, rec, analysis>>

PhaseReturnBroken ==
    /\ run.pc = "check"
    /\ LET phase == Phases[run.phase]
           success == Expected(phase) \subseteq run.files
           printed == Append(run.printed,
                             Line(IF success THEN "completed" ELSE "failed", phase))
       IN  IF run.phase = Len(Phases)
           THEN run' = [run EXCEPT !.pc = "finish", !.printed = printed]
           ELSE run' = [run EXCEPT !.pc = "call", !.phase = run.phase + 1,
                                   !.printed = printed]
    /\ UNCHANGED <<dcf, lbo, ipo, lboSweep, ipoSweep, rec, analysis>>

\* Lines 79-84, 171-178, 221-227 and 268-274 with lines 282-292: the phase
\* reports failure and returns False when an expected file is missing, else
\* reports success and returns True; main returns on False and goes on to
\* the next phase on True.
PhaseReturn ==
    /\ run.pc = "check"
    /\ LET phase == Phases[run.phase]
           success == Expected(phase) \subseteq run.files
           printed == Append(run.printed,
                             Line(IF success THEN "completed" ELSE "failed", phase))
       IN  IF ~success
           THEN run' = [run EXCEPT !.pc = "done", !.printed = printed]
           ELSE IF run.phase = Len(Phases)
           THEN run' = [run EXCEPT !.pc = "finish", !.printed = printed]
           ELSE run' = [run EXCEPT !.pc = "call", !.phase = run.phase + 1,
                                   !.printed = printed]
    /\ UNCHANGED <<dcf, lbo, ipo, lboSweep, ipoSweep, rec, analysis>>

\* Lines 294-295: the completion message.
RunCompleted ==
    /\ run.pc = "finish"
    /\ run' = [run EXCEPT !.pc = "done",
                          !.printed = Append(run.printed, Line("process_completed", ""))]
    /\ UNCHANGED <<dcf, lbo, ipo, lboSweep, ipoSweep, rec, analysis>>

RunNext == RunMain \/ StartPhase \/ Chat \/ PhaseReturn \/ RunCompleted

RunSpec == RunInit /\ [][RunNext]_vars

IsStarting(line) == line.msg = "starting"

\* The phase reported success before the x-th printed line.
SucceededBefore(phase, x) ==
    \E y \in 1..(x - 1) : run.printed[y] = Line("completed", phase)

\* C30: the phases of the pipeline start in the order strategy, research,
\* data collection, valuation, each at most once; a phase starts only after
\* every earlier phase has reported success, nothing runs after a phase has
\* reported failure, and the completion message is printed only after all
\* four phases have reported success.
C30_PhaseOrder ==
    run.pc # "idle" =>
        LET starts == SelectSeq(run.printed, IsStarting)
        IN  /\ Len(starts) <= Len(Phases)
            /\ \A n \in 1..Len(starts) : starts[n].phase = Phases[n]
            /\ \A x \in 1..Len(run.printed) :
                 /\ run.printed[x].msg = "starting" =>
                        \A m \in 1..Len(Phases) :
                            (\E n \in (m + 1)..Len(Phases) :
                                 run.printed[x].phase = Phases[n])
                                => SucceededBefore(Phases[m], x)
                 /\ run.printed[x].msg = "failed" =>
                        x = Len(run.printed) /\ run.pc = "done"
                 /\ run.printed[x].msg = "process_completed" =>
                        \A m \in 1..Len(Phases) : SucceededBefore(Phases[m], x)

\* The pipeline has run its four phases and printed its completion message.
C30_Witness ==
    /\ run.pc = "done"
    /\ Len(run.printed) = 10
    /\ run.printed[9] = Line("completed", "valuation")
    /\ run.printed[10].msg = "process_completed"

====
